---- MODULE Spec2Model ----
(***************************************************************************)
(* A model of the request/response pipeline of the donately client:        *)
(* makeRequestWithContentType (the Request Executor and its error          *)
(* classification), SaveDonation with its backoff.Retry loop, and the      *)
(* other resource operations, each of which calls the executor once.       *)
(*                                                                         *)
(* One call runs at a time against one client.  A call is cut into steps   *)
(* at the points where the Go code blocks: while a round trip is in flight *)
(* and while backoff.Retry waits on its timer.  Between two such points    *)
(* the code runs as one action.                                            *)
(***************************************************************************)
EXTENDS Integers, Sequences, FiniteSets, TLC

(***************************************************************************)
(* Bounds of the model.  Time is counted in abstract ticks.                *)
(***************************************************************************)
\* the elapsed-time budget of backoff.Retry (DefaultMaxElapsedTime), in ticks
MaxElapsedTicks == 4
\* the longest interval NextBackOff may return, in ticks
MaxIntervalTicks == 2
\* the longest round trip of one request inside the retry loop, in ticks
MaxRttTicks == 1

(***************************************************************************)
(* Strings that the code inspects character by character are sequences of  *)
(* one-character strings.                                                  *)
(***************************************************************************)
UpperChars == <<"A","B","C","D","E","F","G","H","I","J","K","L","M",
                "N","O","P","Q","R","S","T","U","V","W","X","Y","Z">>
LowerChars == <<"a","b","c","d","e","f","g","h","i","j","k","l","m",
                "n","o","p","q","r","s","t","u","v","w","x","y","z">>

\* unicode.IsSpace on the characters a body can hold here
IsSpace(c) == c \in {" ", "\t", "\n", "\r"}

ToLowerChar(c) ==
    IF \E i \in 1..Len(UpperChars) : UpperChars[i] = c
    THEN LowerChars[CHOOSE i \in 1..Len(UpperChars) : UpperChars[i] = c]
    ELSE c

\* strings.ToLower
ToLower(s) == [i \in 1..Len(s) |-> ToLowerChar(s[i])]

RECURSIVE TrimLeft(_)
TrimLeft(s) ==
    IF s # <<>> /\ IsSpace(Head(s)) THEN TrimLeft(Tail(s)) ELSE s

RECURSIVE TrimRight(_)
TrimRight(s) ==
    IF s # <<>> /\ IsSpace(s[Len(s)])
    THEN TrimRight(SubSeq(s, 1, Len(s) - 1))
    ELSE s

\* strings.TrimSpace
TrimSpace(s) == TrimRight(TrimLeft(s))

\* the literal "retry later" of the sentinel comparison
RetryLater == <<"r","e","t","r","y"," ","l","a","t","e","r">>

\* the comparison has the case folding dropped
IsSentinelNoFold(rawBody) == RetryLater = TrimSpace(rawBody)

\* "retry later" == strings.ToLower(strings.TrimSpace(rawBody))
IsSentinel(rawBody) == RetryLater = ToLower(TrimSpace(rawBody))

(***************************************************************************)
(* HTTP responses.  A body is either text that json.Unmarshal rejects for  *)
(* the APIResponse shape, or a JSON object (or null) carrying the envelope *)
(* fields; absent fields are the empty string.                             *)
(***************************************************************************)
RawTexts ==
    { RetryLater,
      <<"R","e","t","r","y"," ","L","a","t","e","r">>,
      <<" ","R","E","T","R","Y"," ","L","A","T","E","R","\n">>,
      <<"r","e","t","r","y"," "," ","l","a","t","e","r">>,
      <<"r","e","t","r","y"," ","l","a","t","e","r","!">>,
      <<"\"","r","e","t","r","y"," ","l","a","t","e","r","\"">>,
      <<>> }

Types    == {"", "error"}
Messages == {"", "Invalid API key"}
Codes    == {"", "invalid_api_key"}
\* the data field: absent, null, two JSON objects, a JSON array
Datas    == {"", "null", "obj1", "obj2", "arr"}
Statuses == {200, 399, 400, 404}

NoText == <<>>

RawBodies ==
    { [json |-> FALSE, text |-> t, type |-> "", message |-> "", code |-> "",
       data |-> ""] : t \in RawTexts }

JsonBodies ==
    { [json |-> TRUE, text |-> NoText, type |-> ty, message |-> m, code |-> c,
       data |-> d] : ty \in Types, m \in Messages, c \in Codes, d \in Datas }

EmptyBody == [json |-> FALSE, text |-> NoText, type |-> "", message |-> "",
              code |-> "", data |-> ""]

\* what c.client.Do and io.ReadAll can produce for one request
Responses ==
    { [transport |-> "ok", status |-> s, body |-> b] :
          s \in Statuses, b \in RawBodies \cup JsonBodies }
    \cup { [transport |-> t, status |-> 0, body |-> EmptyBody] :
          t \in {"doFailed", "readFailed"} }

NoResponse == [transport |-> "none", status |-> 0, body |-> EmptyBody]

(***************************************************************************)
(* Errors and envelopes as the Go values that makeRequest returns.         *)
(***************************************************************************)
\* kind "nil" is the nil error; retryable says the value is a retryableError
Err(kind, retryable, canRetry, status, body, ctx) ==
    [kind |-> kind, retryable |-> retryable, canRetry |-> canRetry,
     status |-> status, type |-> body.type, message |-> body.message,
     code |-> body.code, ctx |-> ctx]

NilErr == Err("nil", FALSE, FALSE, 0, EmptyBody, FALSE)

\* *APIResponse: isNil is the nil pointer
NilEnvelope == [isNil |-> TRUE, data |-> "", type |-> "", message |-> "", code |-> ""]

Envelope(body) ==
    [isNil |-> FALSE, data |-> body.data, type |-> body.type,
     message |-> body.message, code |-> body.code]

\* retryableError.CanRetry through the retryable interface assertion
CanRetry(e) == e.retryable /\ e.canRetry

\* strconv / %d: the decimal digits of a natural number
Digits == <<"0","1","2","3","4","5","6","7","8","9">>

RECURSIVE Itoa(_)
Itoa(n) ==
    IF n < 10 THEN <<Digits[n + 1]>> ELSE Itoa(n \div 10) \o Itoa(n % 10)

\* the texts of the errors, as the sequence of their parts; a part is a
\* sequence of strings (one string for a literal or a field, digits for %d)
ErrorText(e) ==
    CASE e.kind = "api" ->
            << <<"API error: ">>, <<e.code>>, <<" - (">>, <<e.type>>, <<") ">>,
               <<e.message>> >>
      [] e.kind = "http" ->
            << <<"HTTP error: ">>, Itoa(e.status), <<" (Raw Response: ">>,
               <<e.type, e.message, e.code>>, <<")">> >>
      [] e.kind = "decode" -> << <<"failed to unmarshal response: ">> >>
      [] e.kind = "transport" -> << <<"failed to make request: ">> >>
      [] e.kind = "read" -> << <<"failed to read response body: ">> >>
      [] e.kind = "payload" -> << <<"failed to unmarshal payload: ">> >>
      [] e.kind = "validation" -> << <<"missing account information">> >>
      [] e.kind = "context" -> << <<"context canceled">> >>
      [] e.kind = "encoding" ->
            << <<"body must be url.Values for form-encoded requests">> >>
      [] e.kind = "missingKey" -> << <<"missing API key!">> >>
      [] e.kind = "missingURL" -> << <<"missing base URL!">> >>
      [] OTHER -> << >>

\* json.Unmarshal(respBody, &apiResp) succeeds
ParsesAsEnvelope(body) == body.json

\* apiResp.Type != "" && apiResp.Message != "" && apiResp.Code != ""
IsAPIError(body) == body.type # "" /\ body.message # "" /\ body.code # ""

\* the unparsable-body branch of makeRequestWithContentType
DecodeFailure(r) ==
    IF IsSentinel(r.body.text)
    THEN [env |-> NilEnvelope, err |-> Err("decode", TRUE, TRUE, 0, EmptyBody, FALSE)]
    ELSE [env |-> NilEnvelope, err |-> Err("decode", FALSE, FALSE, 0, EmptyBody, FALSE)]

\* the parsed-body branch with the status test placed before the triple test
ClassifyParsedStatusFirst(r) ==
    IF r.status >= 400
    THEN [env |-> NilEnvelope, err |-> Err("http", FALSE, FALSE, r.status, r.body, FALSE)]
    ELSE IF IsAPIError(r.body)
    THEN [env |-> NilEnvelope, err |-> Err("api", FALSE, FALSE, 0, r.body, FALSE)]
    ELSE [env |-> Envelope(r.body), err |-> NilErr]

\* the parsed-body branch with the status test written > 400
ClassifyParsedAbove400(r) ==
    IF IsAPIError(r.body)
    THEN [env |-> NilEnvelope, err |-> Err("api", FALSE, FALSE, 0, r.body, FALSE)]
    ELSE IF r.status > 400
    THEN [env |-> NilEnvelope, err |-> Err("http", FALSE, FALSE, r.status, r.body, FALSE)]
    ELSE [env |-> Envelope(r.body), err |-> NilErr]

\* the parsed-body branch with every status outside 200..299 an HTTP error
ClassifyParsedNon2xx(r) ==
    IF IsAPIError(r.body)
    THEN [env |-> NilEnvelope, err |-> Err("api", FALSE, FALSE, 0, r.body, FALSE)]
    ELSE IF r.status < 200 \/ r.status >= 300
    THEN [env |-> NilEnvelope, err |-> Err("http", FALSE, FALSE, r.status, r.body, FALSE)]
    ELSE [env |-> Envelope(r.body), err |-> NilErr]

\* the parsed-body branch of makeRequestWithContentType
ClassifyParsed(r) ==
    IF IsAPIError(r.body)
    THEN [env |-> NilEnvelope, err |-> Err("api", FALSE, FALSE, 0, r.body, FALSE)]
    ELSE IF r.status >= 400
    THEN [env |-> NilEnvelope, err |-> Err("http", FALSE, FALSE, r.status, r.body, FALSE)]
    ELSE [env |-> Envelope(r.body), err |-> NilErr]

\* makeRequestWithContentType from c.client.Do on: the (envelope, error) pair
\* it returns for response r; ctxDone says the context is done when the round
\* trip ends, and then Do fails with the context's error
Classify(r, ctxDone) ==
    IF ctxDone
    THEN [env |-> NilEnvelope, err |-> Err("transport", FALSE, FALSE, 0, EmptyBody, TRUE)]
    ELSE IF r.transport = "doFailed"
    THEN [env |-> NilEnvelope, err |-> Err("transport", FALSE, FALSE, 0, EmptyBody, FALSE)]
    ELSE IF r.transport = "readFailed"
    THEN [env |-> NilEnvelope, err |-> Err("read", FALSE, FALSE, 0, EmptyBody, FALSE)]
    ELSE IF ~ParsesAsEnvelope(r.body)
    THEN DecodeFailure(r)
    ELSE ClassifyParsed(r)

(***************************************************************************)
(* Construction of the client.                                             *)
(***************************************************************************)
\* how many options one NewDonatelyClient call is given at most
MaxOptions == 3

APIKeys  == {"", "test-api-key"}
BaseURLs == {"", "https://custom.api.com/v1"}

\* WithAPIKey, WithBaseURL, WithRetry
WithAPIKey(key)  == [option |-> "WithAPIKey", arg |-> key]
WithBaseURL(url) == [option |-> "WithBaseURL", arg |-> url]
WithRetry        == [option |-> "WithRetry", arg |-> ""]

ClientOptions ==
    {WithAPIKey(k) : k \in APIKeys} \cup {WithBaseURL(u) : u \in BaseURLs}
        \cup {WithRetry}

OptionLists ==
    UNION {[1..n -> ClientOptions] : n \in 0..MaxOptions}

\* the clientOption literal NewDonatelyClient starts from
DefaultClientOption ==
    [apiKey |-> "", baseURL |-> "https://api.donately.com/v2",
     donatelyAPIVersion |-> "2018-04-01", doRetry |-> FALSE, debug |-> FALSE]

\* clientOption{}: what &donatelyClient{} holds
ZeroClientOption ==
    [apiKey |-> "", baseURL |-> "", donatelyAPIVersion |-> "",
     doRetry |-> FALSE, debug |-> FALSE]

\* option(&clientOptions)
ApplyOption(o, co) ==
    CASE o.option = "WithAPIKey"  -> [co EXCEPT !.apiKey = o.arg]
      [] o.option = "WithBaseURL" -> [co EXCEPT !.baseURL = o.arg]
      [] o.option = "WithRetry"   -> [co EXCEPT !.doRetry = TRUE]

\* for _, option := range options
RECURSIVE ApplyOptions(_, _)
ApplyOptions(options, co) ==
    IF options = <<>> THEN co
    ELSE ApplyOptions(Tail(options), ApplyOption(Head(options), co))

ConstructionErr(kind) == Err(kind, FALSE, FALSE, 0, EmptyBody, FALSE)

\* the constructor with the API key test left out
NewDonatelyClientNoKeyCheck(options) ==
    LET co == ApplyOptions(options, DefaultClientOption) IN
    IF co.baseURL = ""
    THEN [opts |-> ZeroClientOption, hasTransport |-> FALSE,
          err |-> ConstructionErr("missingURL")]
    ELSE [opts |-> co, hasTransport |-> TRUE, err |-> NilErr]

\* NewDonatelyClient: the client (its opts, and whether it holds an
\* http.Client) and the error
NewDonatelyClient(options) ==
    LET co == ApplyOptions(options, DefaultClientOption) IN
    IF co.apiKey = ""
    THEN [opts |-> ZeroClientOption, hasTransport |-> FALSE,
          err |-> ConstructionErr("missingKey")]
    ELSE IF co.baseURL = ""
    THEN [opts |-> ZeroClientOption, hasTransport |-> FALSE,
          err |-> ConstructionErr("missingURL")]
    ELSE [opts |-> co, hasTransport |-> TRUE, err |-> NilErr]

\* the configurations of the clients NewDonatelyClient returns without error
ConstructedOptions ==
    { NewDonatelyClient(os).opts :
          os \in {x \in OptionLists : NewDonatelyClient(x).err = NilErr} }

(***************************************************************************)
(* The resource operations.                                                *)
(***************************************************************************)
\* what an operation checks before it builds its request
Validation(o) ==
    CASE o = "SavePerson" -> "personAccounts"
      [] o \in {"SaveDonation", "RefundDonation"} -> "donationAccount"
      [] OTHER -> "none"

\* the Go type the operation unmarshals resp.Data into; "none" for the
\* operations that drop the envelope
Target(o) ==
    CASE o \in {"ListPeople", "ListDonations", "ListMyDonations",
                "ListSubscriptions", "ListMySubscriptions", "ListCampaigns"} -> "array"
      [] o \in {"RefundDonation", "SendDonationReceipt", "DeleteCampaign"} -> "none"
      [] OTHER -> "object"

Operations ==
    {"FindAccount", "ListPeople", "FindPerson", "Me", "SavePerson",
     "ListDonations", "ListMyDonations", "FindDonation", "SaveDonation",
     "RefundDonation", "SendDonationReceipt", "ListSubscriptions",
     "ListMySubscriptions", "FindSubscription", "SaveSubscription",
     "ListCampaigns", "FindCampaign", "SaveCampaign", "DeleteCampaign"}

\* record and path IDs, character by character: empty, plain, and one that
\* url.PathEscape has to escape
IDs        == {<<>>, <<"i","d","1">>, <<"a","/","b">>}
AccountIDs == {"", "acc_1"}
\* offset and limit of the list operations
Offsets    == {-1, 0, 10}
Limits     == {-1, 0, 20}
\* person.Accounts, by the IDs of the accounts
AccountLists == {<<>>, <<"">>, <<"acc_1">>, <<"", "acc_1">>}

\* the operations that take an offset and a limit
Paginated(o) == o \in {"ListPeople", "ListDonations"}

\* the operations that take the ID of a record, or a record with an ID
TakesID(o) ==
    o \in {"FindAccount", "FindPerson", "SavePerson", "FindDonation",
           "SaveDonation", "RefundDonation", "SendDonationReceipt",
           "FindSubscription", "SaveSubscription", "FindCampaign",
           "SaveCampaign", "DeleteCampaign"}

Input(i, a, as, off, lim, why) ==
    [id |-> i, accountID |-> a, accounts |-> as, offset |-> off, limit |-> lim,
     reason |-> why]

\* the arguments of a call that the operation reads; the other fields of the
\* records are left empty
Inputs(o) ==
    CASE Validation(o) = "personAccounts" ->
            { Input(i, "", as, 0, 0, "") : i \in IDs, as \in AccountLists }
      [] o = "SaveDonation" ->
            { Input(i, a, <<>>, 0, 0, "") : i \in IDs, a \in AccountIDs }
      [] o = "RefundDonation" ->
            { Input(i, a, <<>>, 0, 0, "Customer request") :
                  i \in IDs, a \in AccountIDs }
      [] Paginated(o) ->
            { Input(<<>>, "acc_1", <<>>, off, lim, "") :
                  off \in Offsets, lim \in Limits }
      [] TakesID(o) ->
            { Input(i, "acc_1", <<>>, 0, 0, "") : i \in IDs }
      [] OTHER ->
            { Input(<<>>, "acc_1", <<>>, 0, 0, "") }

NoInput == Input(<<>>, "", <<>>, 0, 0, "")

\* validation that leaves the donation's account unchecked
PassesValidationPersonOnly(o, in) ==
    CASE Validation(o) = "personAccounts" ->
            ~(Len(in.accounts) = 0 \/ in.accounts[1] = "")
      [] OTHER -> TRUE

\* the "missing account information" checks
PassesValidation(o, in) ==
    CASE Validation(o) = "personAccounts" ->
            ~(Len(in.accounts) = 0 \/ in.accounts[1] = "")
      [] Validation(o) = "donationAccount" -> in.accountID # ""
      [] OTHER -> TRUE

(***************************************************************************)
(* The request of an operation: method, endpoint (path and query string),  *)
(* body and content type, and the http.Request that                        *)
(* makeRequestWithContentType builds from them.  A path is the sequence of *)
(* its parts, a part being a literal or one (escaped) character of an ID.  *)
(***************************************************************************)
JSONContentType == "application/json"
FormContentType == "application/x-www-form-urlencoded"

\* url.PathEscape of one character, for the characters the IDs hold
EscapeChar(c) ==
    CASE c = "/" -> "%2F"
      [] c = " " -> "%20"
      [] c = "?" -> "%3F"
      [] c = "%" -> "%25"
      [] OTHER -> c

\* the IDs put into the path as they are
PathEscapeNone(id) == id

\* url.PathEscape
PathEscape(id) == [i \in 1..Len(id) |-> EscapeChar(id[i])]

\* the collection of a save operation
Collection(o) ==
    CASE o = "SavePerson"       -> "/people"
      [] o = "SaveDonation"     -> "/donations"
      [] o = "SaveSubscription" -> "/subscriptions"
      [] o = "SaveCampaign"     -> "/campaigns"

\* the save operations' choice between the create and the update path
SavePath(o, id) ==
    IF id = <<>> THEN <<Collection(o)>>
    ELSE <<Collection(o) \o "/">> \o PathEscape(id)

\* the path each operation formats
Path(o, in) ==
    CASE o = "FindAccount"      -> <<"/accounts/">> \o PathEscape(in.id)
      [] o = "ListPeople"       -> <<"/people">>
      [] o = "FindPerson"       -> <<"/people/">> \o PathEscape(in.id)
      [] o = "Me"               -> <<"/me">>
      [] o = "ListDonations"    -> <<"/donations">>
      [] o = "ListMyDonations"  -> <<"/me/donations">>
      [] o = "FindDonation"     -> <<"/donations/">> \o PathEscape(in.id)
      [] o = "RefundDonation"   ->
            <<"/donations/">> \o PathEscape(in.id) \o <<"/refund">>
      [] o = "SendDonationReceipt" ->
            <<"/donations/">> \o PathEscape(in.id) \o <<"/receipt">>
      [] o = "ListSubscriptions"   -> <<"/subscriptions">>
      [] o = "ListMySubscriptions" -> <<"/me/subscriptions">>
      [] o = "FindSubscription" -> <<"/subscriptions/">> \o PathEscape(in.id)
      [] o = "ListCampaigns"    -> <<"/campaigns">>
      [] o = "FindCampaign"     -> <<"/campaigns/">> \o PathEscape(in.id)
      [] o = "DeleteCampaign"   -> <<"/campaigns/">> \o PathEscape(in.id)
      [] OTHER                  -> SavePath(o, in.id)

Method(o) ==
    CASE o \in {"SavePerson", "SaveDonation", "RefundDonation",
                "SendDonationReceipt", "SaveSubscription", "SaveCampaign"} -> "POST"
      [] o = "DeleteCampaign" -> "DELETE"
      [] OTHER -> "GET"

\* url.Values with no key
NoValues == [k \in {} |-> <<>>]

\* params.Set(key, value)
Set(params, key, value) == (key :> value) @@ params

\* the keys of the model's url.Values, in the order Encode sorts them
SortedKeys == <<"account_id", "limit", "offset", "refund_reason">>

\* url.Values.Encode: the key=value pairs sorted by key
Encode(params) ==
    LET keys == SelectSeq(SortedKeys, LAMBDA k : k \in DOMAIN params) IN
    [i \in 1..Len(keys) |-> <<keys[i], params[keys[i]]>>]

\* pagination with the offset test written >= 0
ListParamsZeroOffset(in) ==
    LET p0 == Set(NoValues, "account_id", <<in.accountID>>)
        p1 == IF in.offset >= 0 THEN Set(p0, "offset", Itoa(in.offset)) ELSE p0
    IN  IF in.limit > 0 THEN Set(p1, "limit", Itoa(in.limit)) ELSE p1

\* the params of ListPeople and ListDonations
ListParams(in) ==
    LET p0 == Set(NoValues, "account_id", <<in.accountID>>)
        p1 == IF in.offset > 0 THEN Set(p0, "offset", Itoa(in.offset)) ELSE p0
    IN  IF in.limit > 0 THEN Set(p1, "limit", Itoa(in.limit)) ELSE p1

\* the url.Values an operation puts behind "?"; NoValues for the
\* operations that have no query string
QueryParams(o, in) ==
    CASE Paginated(o) -> ListParams(in)
      [] o \in {"FindPerson", "FindDonation", "SaveDonation", "ListSubscriptions",
                "FindSubscription", "ListCampaigns", "FindCampaign"} ->
            Set(NoValues, "account_id", <<in.accountID>>)
      [] OTHER -> NoValues

\* the endpoint string handed to makeRequest, as path and encoded query
Endpoint(o, in) == [path |-> Path(o, in), query |-> Encode(QueryParams(o, in))]

NoEndpoint == [path |-> <<>>, query |-> <<>>]

\* the body argument: nil, a url.Values, or the record itself
Body(o, in) ==
    CASE o = "SavePerson" ->
            [shape |-> "values",
             fields |-> Set(NoValues, "account_id", <<in.accounts[1]>>)]
      [] o = "RefundDonation" ->
            [shape |-> "values",
             fields |-> Set(Set(NoValues, "account_id", <<in.accountID>>),
                            "refund_reason", <<in.reason>>)]
      [] o \in {"SaveSubscription", "SaveCampaign"} ->
            [shape |-> "record", fields |-> Set(NoValues, "id", in.id)]
      [] OTHER -> [shape |-> "nil", fields |-> NoValues]

\* the content type argument: SavePerson calls makeRequestWithContentType
\* with the form type, every other operation goes through makeRequest
ContentType(o) ==
    IF o = "SavePerson" THEN FormContentType ELSE JSONContentType

\* the request body makeRequestWithContentType writes, or the encoding error
EncodeBody(body, contentType) ==
    IF body.shape = "nil"
    THEN [ok |-> TRUE, payload |-> [encoding |-> "none", fields |-> <<>>]]
    ELSE IF contentType = FormContentType
    THEN IF body.shape = "values"
         THEN [ok |-> TRUE,
               payload |-> [encoding |-> "form", fields |-> Encode(body.fields)]]
         ELSE [ok |-> FALSE, payload |-> [encoding |-> "none", fields |-> <<>>]]
    ELSE [ok |-> TRUE, payload |-> [encoding |-> "json", fields |-> body.fields]]

\* the header block without the Accept header
HeadersNoAccept(cfg, contentType) ==
    [DonatelyVersion |-> cfg.donatelyAPIVersion,
     Authorization   |-> <<"Bearer ", cfg.apiKey>>,
     ContentType     |-> contentType,
     Accept          |-> ""]

\* the four req.Header.Set calls
Headers(cfg, contentType) ==
    [DonatelyVersion |-> cfg.donatelyAPIVersion,
     Authorization   |-> <<"Bearer ", cfg.apiKey>>,
     ContentType     |-> contentType,
     Accept          |-> "application/json"]

\* the http.Request of makeRequestWithContentType
BuildRequest(cfg, method, endpoint, body, contentType) ==
    [method  |-> method,
     base    |-> cfg.baseURL,
     path    |-> endpoint.path,
     query   |-> endpoint.query,
     headers |-> Headers(cfg, contentType),
     body    |-> EncodeBody(body, contentType).payload]

NoRequest ==
    [method |-> "", base |-> "", path |-> <<>>, query |-> <<>>,
     headers |-> [DonatelyVersion |-> "", Authorization |-> <<>>,
                  ContentType |-> "", Accept |-> ""],
     body |-> [encoding |-> "none", fields |-> <<>>]]

\* the request an operation sends for this endpoint
RequestOf(cfg, o, in, endpoint) ==
    BuildRequest(cfg, Method(o), endpoint, Body(o, in), ContentType(o))

\* the retry closure posting to the bare collection path
RetryRequestBarePath(cfg, ep) ==
    BuildRequest(cfg, "POST", [path |-> <<"/donations">>, query |-> <<>>],
                 [shape |-> "nil", fields |-> NoValues], JSONContentType)

\* the request of the operation closure that SaveDonation hands to Retry:
\* makeRequest with POST, the endpoint built before the first attempt, nil
RetryRequest(cfg, ep) ==
    BuildRequest(cfg, "POST", ep, [shape |-> "nil", fields |-> NoValues],
                 JSONContentType)

EncodingErr == Err("encoding", FALSE, FALSE, 0, EmptyBody, FALSE)

(***************************************************************************)
(* What a call returns: kind "ok" with the decoded value and a nil error,  *)
(* kind "err" with the zero value and the error, kind "panic" when the     *)
(* goroutine dies on a nil pointer dereference.                            *)
(***************************************************************************)
NoResult       == [kind |-> "none", value |-> "", err |-> NilErr]
Returned(v)    == [kind |-> "ok", value |-> v, err |-> NilErr]
Failed(e)      == [kind |-> "err", value |-> "zero", err |-> e]
Panicked       == [kind |-> "panic", value |-> "", err |-> NilErr]

PayloadErr    == Err("payload", FALSE, FALSE, 0, EmptyBody, FALSE)
ValidationErr == Err("validation", FALSE, FALSE, 0, EmptyBody, FALSE)
\* ctx.Err() and context.Cause(ctx)
ContextErr    == Err("context", FALSE, FALSE, 0, EmptyBody, TRUE)

\* json.Unmarshal(resp.Data, &v): null leaves v at its zero value, an absent
\* data field and a JSON value of the other shape are errors
Unmarshals(target, data) ==
    CASE target = "object" -> data \in {"null", "obj1", "obj2"}
      [] target = "array"  -> data \in {"null", "arr"}
      [] OTHER -> TRUE

\* the tail of an operation that has its envelope: decode resp.Data and
\* return; resp.Data on a nil resp is the nil pointer dereference
DecodePayload(o, env) ==
    IF Target(o) = "none" THEN Returned("none")
    ELSE IF env.isNil THEN Panicked
    ELSE IF ~Unmarshals(Target(o), env.data) THEN Failed(PayloadErr)
    ELSE IF env.data = "null" THEN Returned("zero")
    ELSE Returned(env.data)

\* the retry gate applied to every operation
NeedsRetryAnyOperation(o, retryFlag, out) == retryFlag /\ CanRetry(out.err)

\* the retry gate without the client's flag
NeedsRetryIgnoringFlag(o, retryFlag, out) ==
    o = "SaveDonation" /\ CanRetry(out.err)

\* SaveDonation's gate: c.opts.doRetry, then err.(retryable) and CanRetry()
NeedsRetry(o, retryFlag, out) ==
    o = "SaveDonation" /\ retryFlag /\ CanRetry(out.err)

\* what the operation returns after its first makeRequest gave out, when it
\* does not enter the retry loop
FirstResult(o, retryFlag, out) ==
    IF o = "SaveDonation"
    THEN IF retryFlag
         THEN \* the else branch of the gate: return Donation{}, err
              IF out.err.kind = "nil" THEN Returned("zero") ELSE Failed(out.err)
         ELSE \* the gate is skipped and err is not looked at
              DecodePayload(o, out.env)
    ELSE IF out.err.kind # "nil" THEN Failed(out.err)
    ELSE DecodePayload(o, out.env)

(***************************************************************************)
(* backoff.Retry (github.com/cenkalti/backoff/v5), as SaveDonation calls   *)
(* it: default options with an exponential back-off.  After an attempt     *)
(* that failed it gives up when the context is done or when the elapsed    *)
(* time plus the next interval passes the elapsed-time budget; no error    *)
(* of makeRequest is a PermanentError, so any other failure is retried.    *)
(***************************************************************************)
\* Retry that does not look at the context after a failed attempt
RetryVerdictNoContextCheck(out, ctxDone, elapsedNow, next) ==
    IF out.err.kind = "nil" THEN "success"
    ELSE IF elapsedNow + next > MaxElapsedTicks THEN "giveUp"
    ELSE "wait"

\* Retry with twice the elapsed-time budget
RetryVerdictDoubleBudget(out, ctxDone, elapsedNow, next) ==
    IF out.err.kind = "nil" THEN "success"
    ELSE IF ctxDone THEN "cancelled"
    ELSE IF elapsedNow + next > 2 * MaxElapsedTicks THEN "giveUp"
    ELSE "wait"

\* what Retry does with the outcome of one attempt
RetryVerdict(out, ctxDone, elapsedNow, next) ==
    IF out.err.kind = "nil" THEN "success"
    ELSE IF ctxDone THEN "cancelled"
    ELSE IF elapsedNow + next > MaxElapsedTicks THEN "giveUp"
    ELSE "wait"

\* SaveDonation returning Donation{} without decoding after Retry succeeded
RetryResultDropsPayload(verdict, out) ==
    CASE verdict = "success"   -> Returned("zero")
      [] verdict = "cancelled" -> Failed(ContextErr)
      [] OTHER                 -> Failed(out.err)

\* what SaveDonation returns once Retry has returned with this verdict
RetryResult(verdict, out) ==
    CASE verdict = "success"   -> DecodePayload("SaveDonation", out.env)
      [] verdict = "cancelled" -> Failed(ContextErr)
      [] OTHER                 -> Failed(out.err)

(***************************************************************************)
(* State.                                                                  *)
(***************************************************************************)
VARIABLES
    opts,        \* c.opts, the client's configuration
    pc,          \* "idle", "inflight", "wait", "done"
    op,          \* the operation that is running
    input,       \* its arguments
    phase,       \* "first": the call at the top; "retry": inside backoff.Retry
    cancelled,   \* the call's context is done
    nReq,        \* HTTP requests this call has sent
    nAttempts,   \* makeRequest invocations of this call
    lastResp,    \* the response the latest completed round trip received
    last,        \* resp, err: what the latest makeRequest returned
    first,       \* what the first makeRequest of this call returned
    priorRetryLater, \* every response before the latest was the text retry later
    elapsed,     \* ticks since Retry started
    timer,       \* the interval Retry is waiting for
    succeeded,   \* some makeRequest of this call returned a nil error
    result,      \* what the call returned
    endpoint,    \* the endpoint the operation formatted
    sent,        \* the latest request this call put on the wire
    ctorPc,      \* "start" before NewDonatelyClient is called, "built" after
    ctorOptions, \* the options given to NewDonatelyClient
    ctorOut,     \* what NewDonatelyClient returned
    oPc,         \* a second call on the same client: "idle", "inflight", "done"
    oOp,         \* its operation
    oInput,      \* its arguments
    oSent,       \* the request it put on the wire
    oResp,       \* the response its round trip received
    oResult      \* what it returned

\* c.opts.doRetry
doRetry == opts.doRetry

\* the variables of the construction
ctorVars == <<ctorPc, ctorOptions, ctorOut>>

\* the variables of the second call
otherVars == <<oPc, oOp, oInput, oSent, oResp, oResult>>

\* the variables that no step of the first call touches
auxVars == <<ctorVars, otherVars>>

vars == <<auxVars, opts, pc, op, input, phase, cancelled, nReq, nAttempts, lastResp,
          last, first, priorRetryLater, elapsed, timer, succeeded, result,
          endpoint, sent>>

NoOutcome == [env |-> NilEnvelope, err |-> NilErr]

\* the body of the call encodes
Encodes(o, in) == EncodeBody(Body(o, in), ContentType(o)).ok

\* makeRequestWithContentType returning before it builds the request
EncodingOutcome == [env |-> NilEnvelope, err |-> EncodingErr]

\* the response is the literal text retry later
ReceivedRetryLater(r) ==
    r.transport = "ok" /\ ~r.body.json /\ r.body.text = RetryLater

NoConstruction == [opts |-> ZeroClientOption, hasTransport |-> FALSE, err |-> NilErr]

\* no call is running
Idle ==
    /\ pc = "idle"
    /\ op = "none"
    /\ input = NoInput
    /\ phase = "first"
    /\ cancelled = FALSE
    /\ nReq = 0
    /\ nAttempts = 0
    /\ lastResp = NoResponse
    /\ last = NoOutcome
    /\ first = NoOutcome
    /\ priorRetryLater = TRUE
    /\ elapsed = 0
    /\ timer = 0
    /\ succeeded = FALSE
    /\ result = NoResult
    /\ endpoint = NoEndpoint
    /\ sent = NoRequest

\* the second call is not running
OtherIdle ==
    /\ oPc = "idle"
    /\ oOp = "none"
    /\ oInput = NoInput
    /\ oSent = NoRequest
    /\ oResp = NoResponse
    /\ oResult = NoResult

\* a client that NewDonatelyClient returned without error, and no call yet
Init ==
    /\ opts \in ConstructedOptions
    /\ ctorPc = "built"
    /\ ctorOptions = <<>>
    /\ ctorOut = NoConstruction
    /\ Idle
    /\ OtherIdle

\* an operation is called with a live context: validation, then the first
\* request is sent
Call(o, in) ==
    /\ pc = "idle"
    /\ op' = o
    /\ input' = in
    /\ endpoint' = Endpoint(o, in)
    /\ IF ~PassesValidation(o, in)
       THEN /\ pc' = "done"
            /\ nReq' = 0
            /\ nAttempts' = 0
            /\ result' = Failed(ValidationErr)
            /\ UNCHANGED <<last, first, sent>>
       ELSE IF ~Encodes(o, in)
       THEN /\ pc' = "done"
            /\ nReq' = 0
            /\ nAttempts' = 1
            /\ last' = EncodingOutcome
            /\ first' = EncodingOutcome
            /\ result' = FirstResult(o, doRetry, EncodingOutcome)
            /\ UNCHANGED sent
       ELSE /\ pc' = "inflight"
            /\ nReq' = 1
            /\ nAttempts' = 1
            /\ result' = NoResult
            /\ sent' = RequestOf(opts, o, in, Endpoint(o, in))
            /\ UNCHANGED <<last, first>>
    /\ UNCHANGED <<auxVars, opts, phase, cancelled, lastResp, priorRetryLater,
                   elapsed, timer, succeeded>>

\* an operation is called with a context that is already done: c.client.Do
\* fails without sending anything
CallCancelled(o, in) ==
    /\ pc = "idle"
    /\ op' = o
    /\ input' = in
    /\ cancelled' = TRUE
    /\ pc' = "done"
    /\ nReq' = 0
    /\ endpoint' = Endpoint(o, in)
    /\ IF PassesValidation(o, in)
       THEN LET out == IF Encodes(o, in) THEN Classify(NoResponse, TRUE)
                       ELSE EncodingOutcome
            IN
            /\ nAttempts' = 1
            /\ last' = out
            /\ first' = out
            /\ result' = FirstResult(o, doRetry, out)
       ELSE /\ nAttempts' = 0
            /\ result' = Failed(ValidationErr)
            /\ UNCHANGED <<last, first>>
    /\ UNCHANGED <<auxVars, opts, phase, lastResp, priorRetryLater, elapsed, timer,
                   succeeded, sent>>

\* the caller cancels the context, or its deadline fires
Cancel ==
    /\ pc \in {"inflight", "wait"}
    /\ ~cancelled
    /\ cancelled' = TRUE
    /\ UNCHANGED <<auxVars, opts, pc, op, input, phase, nReq, nAttempts, lastResp,
                   last, first, priorRetryLater, elapsed, timer, succeeded,
                   result, endpoint, sent>>

\* the first round trip of a call ends; the operation runs on to its return
\* or, through SaveDonation's gate, into Retry, whose first call of the
\* operation sends the next request at once
ReceiveFirst(r) ==
    /\ pc = "inflight"
    /\ phase = "first"
    /\ LET out == Classify(r, cancelled) IN
       /\ first' = out
       /\ succeeded' = (out.err.kind = "nil")
       /\ IF NeedsRetry(op, doRetry, out)
          THEN /\ phase' = "retry"
               /\ elapsed' = 0
               /\ pc' = "inflight"
               /\ nReq' = nReq + 1
               /\ nAttempts' = nAttempts + 1
               /\ priorRetryLater' = (~cancelled /\ ReceivedRetryLater(r))
               /\ lastResp' = NoResponse
               /\ last' = NoOutcome
               /\ sent' = RetryRequest(opts, endpoint)
               /\ UNCHANGED result
          ELSE /\ pc' = "done"
               /\ lastResp' = IF cancelled THEN NoResponse ELSE r
               /\ last' = out
               /\ result' = FirstResult(op, doRetry, out)
               /\ UNCHANGED <<phase, elapsed, nReq, nAttempts, priorRetryLater,
                              sent>>
    /\ UNCHANGED <<auxVars, opts, op, input, cancelled, timer, endpoint>>

\* a round trip started by Retry ends after rtt ticks; next is the interval
\* NextBackOff returns
ReceiveRetry(r, rtt, next) ==
    /\ pc = "inflight"
    /\ phase = "retry"
    /\ LET out == Classify(r, cancelled)
           now == elapsed + rtt
           verdict == RetryVerdict(out, cancelled, now, next)
       IN
       /\ lastResp' = IF cancelled THEN NoResponse ELSE r
       /\ last' = out
       /\ succeeded' = (out.err.kind = "nil")
       /\ elapsed' = now
       /\ IF verdict = "wait"
          THEN /\ pc' = "wait"
               /\ timer' = next
               /\ UNCHANGED result
          ELSE /\ pc' = "done"
               /\ timer' = 0
               /\ result' = RetryResult(verdict, out)
    /\ UNCHANGED <<auxVars, opts, op, input, phase, cancelled, nReq, nAttempts, first,
                   priorRetryLater, endpoint, sent>>

\* Retry's timer fires and the operation is called again; with the context
\* done the call fails without sending, and Retry returns ctx.Err()
TimerFires ==
    /\ pc = "wait"
    /\ elapsed' = elapsed + timer
    /\ timer' = 0
    /\ nAttempts' = nAttempts + 1
    /\ priorRetryLater' = (priorRetryLater /\ ReceivedRetryLater(lastResp))
    /\ lastResp' = NoResponse
    /\ IF cancelled
       THEN LET out == Classify(NoResponse, TRUE) IN
            /\ pc' = "done"
            /\ last' = out
            /\ result' = RetryResult(RetryVerdict(out, TRUE, elapsed + timer, 1), out)
            /\ UNCHANGED <<nReq, sent>>
       ELSE /\ pc' = "inflight"
            /\ nReq' = nReq + 1
            /\ last' = NoOutcome
            /\ sent' = RetryRequest(opts, endpoint)
            /\ UNCHANGED result
    /\ UNCHANGED <<auxVars, opts, op, input, phase, cancelled, first, succeeded,
                   endpoint>>

\* Retry's select takes ctx.Done() and returns context.Cause(ctx)
WaitCancelled ==
    /\ pc = "wait"
    /\ cancelled
    /\ pc' = "done"
    /\ timer' = 0
    /\ result' = Failed(ContextErr)
    /\ UNCHANGED <<auxVars, opts, op, input, phase, cancelled, nReq, nAttempts, lastResp,
                   last, first, priorRetryLater, elapsed, succeeded, endpoint,
                   sent>>

\* the call has returned to its caller; the client is ready for the next one
Return ==
    /\ pc = "done"
    /\ result.kind # "panic"
    /\ pc' = "idle"
    /\ op' = "none"
    /\ input' = NoInput
    /\ phase' = "first"
    /\ cancelled' = FALSE
    /\ nReq' = 0
    /\ nAttempts' = 0
    /\ lastResp' = NoResponse
    /\ last' = NoOutcome
    /\ first' = NoOutcome
    /\ priorRetryLater' = TRUE
    /\ elapsed' = 0
    /\ timer' = 0
    /\ succeeded' = FALSE
    /\ result' = NoResult
    /\ endpoint' = NoEndpoint
    /\ sent' = NoRequest
    /\ UNCHANGED <<auxVars, opts>>

Next ==
    \/ \E o \in Operations : \E in \in Inputs(o) : Call(o, in)
    \/ \E o \in Operations : \E in \in Inputs(o) : CallCancelled(o, in)
    \/ Cancel
    \/ \E r \in Responses : ReceiveFirst(r)
    \/ \E r \in Responses, rtt \in 0..MaxRttTicks, next \in 1..MaxIntervalTicks :
           ReceiveRetry(r, rtt, next)
    \/ TimerFires
    \/ WaitCancelled
    \/ Return

Spec == Init /\ [][Next]_vars

(***************************************************************************)
(* The constructor on its own: NewDonatelyClient applied to every list of  *)
(* at most MaxOptions options.                                             *)
(***************************************************************************)
CtorInit ==
    /\ ctorPc = "start"
    /\ ctorOptions \in OptionLists
    /\ ctorOut = NoConstruction
    /\ opts = ZeroClientOption
    /\ Idle
    /\ OtherIdle

Construct ==
    /\ ctorPc = "start"
    /\ ctorPc' = "built"
    /\ ctorOut' = NewDonatelyClient(ctorOptions)
    /\ opts' = NewDonatelyClient(ctorOptions).opts
    /\ UNCHANGED <<ctorOptions, pc, op, input, phase, cancelled, nReq, nAttempts,
                   lastResp, last, first, priorRetryLater, elapsed, timer,
                   succeeded, result, endpoint, sent, otherVars>>

CtorNext == Construct

CtorSpec == CtorInit /\ [][CtorNext]_vars

(***************************************************************************)
(* Two calls on one client, each on its own goroutine.  The first is a     *)
(* SaveDonation, the second a single-request operation.  A call keeps its  *)
(* endpoint, response and error in locals; the client's fields are only    *)
(* read.  A panic that no caller recovers ends the process and with it     *)
(* every goroutine.                                                        *)
(***************************************************************************)
\* the option lists of the clients the two calls run on
ConcOptionLists ==
    { os \in OptionLists :
          /\ Len(os) \in 1..2
          /\ os[1] = WithAPIKey("test-api-key")
          /\ NewDonatelyClient(os).err = NilErr }

\* the responses the two calls receive
ConcResponses ==
    { r \in Responses :
          \/ r.transport = "doFailed"
          \/ /\ r.transport = "ok" /\ r.status = 200
             /\ ~r.body.json /\ r.body.text = RetryLater
          \/ /\ r.transport = "ok" /\ r.status = 200 /\ r.body.json
             /\ r.body.type = "" /\ r.body.message = "" /\ r.body.code = ""
             /\ r.body.data = "obj1"
          \/ /\ r.transport = "ok" /\ r.status = 400 /\ r.body.json
             /\ r.body.type # "" /\ r.body.message # "" /\ r.body.code # ""
             /\ r.body.data = "" }

\* the operations of the second call
OtherOperations == {"Me", "FindCampaign", "RefundDonation"}

\* no goroutine has panicked
ProcessAlive == result.kind # "panic"

ConcInit ==
    /\ ctorPc = "built"
    /\ ctorOptions \in ConcOptionLists
    /\ ctorOut = NewDonatelyClient(ctorOptions)
    /\ opts = NewDonatelyClient(ctorOptions).opts
    /\ Idle
    /\ OtherIdle

\* the second call starts: validation, then its request is sent
OtherCall(o, in) ==
    /\ ProcessAlive
    /\ oPc = "idle"
    /\ oOp' = o
    /\ oInput' = in
    /\ IF PassesValidation(o, in)
       THEN /\ oPc' = "inflight"
            /\ oSent' = RequestOf(opts, o, in, Endpoint(o, in))
            /\ oResult' = NoResult
       ELSE /\ oPc' = "done"
            /\ oResult' = Failed(ValidationErr)
            /\ UNCHANGED oSent
    /\ UNCHANGED <<ctorVars, opts, pc, op, input, phase, cancelled, nReq,
                   nAttempts, lastResp, last, first, priorRetryLater, elapsed,
                   timer, succeeded, result, endpoint, sent, oResp>>

\* the second call's round trip ends and the operation runs to its return
OtherReceive(r) ==
    /\ ProcessAlive
    /\ oPc = "inflight"
    /\ oPc' = "done"
    /\ oResp' = r
    /\ oResult' = FirstResult(oOp, doRetry, Classify(r, FALSE))
    /\ UNCHANGED <<ctorVars, opts, pc, op, input, phase, cancelled, nReq,
                   nAttempts, lastResp, last, first, priorRetryLater, elapsed,
                   timer, succeeded, result, endpoint, sent, oOp, oInput, oSent>>

\* the second call has returned to its caller
OtherReturn ==
    /\ ProcessAlive
    /\ oPc = "done"
    /\ oPc' = "idle"
    /\ oOp' = "none"
    /\ oInput' = NoInput
    /\ oSent' = NoRequest
    /\ oResp' = NoResponse
    /\ oResult' = NoResult
    /\ UNCHANGED <<ctorVars, opts, pc, op, input, phase, cancelled, nReq,
                   nAttempts, lastResp, last, first, priorRetryLater, elapsed,
                   timer, succeeded, result, endpoint, sent>>

ConcNext ==
    \/ \E in \in Inputs("SaveDonation") : Call("SaveDonation", in)
    \/ Cancel
    \/ \E r \in ConcResponses : ReceiveFirst(r)
    \/ \E r \in ConcResponses, rtt \in 0..MaxRttTicks, next \in 1..MaxIntervalTicks :
           ReceiveRetry(r, rtt, next)
    \/ TimerFires
    \/ WaitCancelled
    \/ Return
    \/ \E o \in OtherOperations : \E in \in Inputs(o) : OtherCall(o, in)
    \/ \E r \in ConcResponses : OtherReceive(r)
    \/ OtherReturn

SpecConc == ConcInit /\ [][ConcNext]_vars

(***************************************************************************)
(* SaveDonation against a server that answers every request with the      *)
(* sentinel, under a context that is never cancelled.  Every round trip    *)
(* returns and Retry's timer fires: weak fairness on the three steps.      *)
(***************************************************************************)
\* the responses whose body is the sentinel
SentinelResponses ==
    { r \in Responses :
          r.transport = "ok" /\ ~r.body.json /\ IsSentinel(r.body.text) }

FirstReturns == \E r \in SentinelResponses : ReceiveFirst(r)

RetryReturns ==
    \E r \in SentinelResponses, rtt \in 0..MaxRttTicks, next \in 1..MaxIntervalTicks :
        ReceiveRetry(r, rtt, next)

RetryLaterNext ==
    \/ \E in \in Inputs("SaveDonation") : Call("SaveDonation", in)
    \/ FirstReturns
    \/ RetryReturns
    \/ TimerFires
    \/ Return

SpecRetryLater ==
    /\ Init
    /\ [][RetryLaterNext]_vars
    /\ WF_vars(FirstReturns)
    /\ WF_vars(RetryReturns)
    /\ WF_vars(TimerFires)

(***************************************************************************)
(* Properties.                                                             *)
(***************************************************************************)
\* a response that is a success envelope carrying a donation
WellFormedSuccess(r) ==
    /\ r.transport = "ok"
    /\ r.body.json
    /\ ~(r.body.type # "" /\ r.body.message # "" /\ r.body.code # "")
    /\ r.status < 400
    /\ r.body.data \in {"obj1", "obj2"}

\* C1: with retry enabled, when every attempt of a SaveDonation call before
\* the latest received the text retry later and the latest (attempt k >= 2)
\* received a well-formed success envelope, the call has returned the
\* donation decoded from that envelope with a nil error, every attempt was
\* one HTTP request, and no request follows a success.
C1_RetryThenSuccess ==
    /\ (op = "SaveDonation" /\ doRetry /\ phase = "retry" /\ priorRetryLater
            /\ WellFormedSuccess(lastResp))
        => /\ pc = "done"
           /\ result = Returned(lastResp.body.data)
           /\ result.err = NilErr
           /\ nReq = nAttempts
           /\ nReq >= 2
    /\ (op = "SaveDonation" /\ succeeded) => pc = "done"

\* three requests: retry later twice, then the donation
C1_Witness ==
    /\ op = "SaveDonation" /\ doRetry /\ pc = "done" /\ priorRetryLater
    /\ WellFormedSuccess(lastResp)
    /\ nReq = 3
    /\ result = Returned("obj2")

\* C2: with retry disabled, a SaveDonation call whose only response is the
\* text retry later returns the retryable error as an error value after one
\* request.
C2_RetryLaterWithoutRetry ==
    (op = "SaveDonation" /\ ~doRetry /\ pc = "done" /\ ReceivedRetryLater(lastResp))
        => /\ result.kind = "err"
           /\ CanRetry(result.err)
           /\ nReq = 1

\* C3: when the first response of a SaveDonation call is a success, the call
\* returns the donation decoded from its data with a nil error after one
\* request, whatever the retry flag.
C3_FirstSuccess ==
    (op = "SaveDonation" /\ pc = "done" /\ phase = "first"
            /\ WellFormedSuccess(lastResp))
        => /\ nReq = 1
           /\ result = Returned(lastResp.body.data)

\* C4: when the first request of a SaveDonation call fails with an error
\* that is not retryable, the call returns that error after one request,
\* whatever the retry flag.
C4_FirstNonRetryableError ==
    (op = "SaveDonation" /\ pc = "done" /\ phase = "first"
            /\ lastResp # NoResponse
            /\ first.err.kind \in {"transport", "read", "decode", "api", "http"}
            /\ ~CanRetry(first.err))
        => /\ nReq = 1
           /\ result = Failed(first.err)

\* C5: inside the retry loop an attempt that fails with an error that is
\* not retryable ends the call with that error; nothing is waited for or
\* sent after it.
C5_NonRetryableEndsLoop ==
    (op = "SaveDonation" /\ phase = "retry" /\ lastResp # NoResponse
            /\ last.err.kind # "nil" /\ ~CanRetry(last.err))
        => /\ pc = "done"
           /\ result = Failed(last.err)

\* C6: a call sends more than one HTTP request only if it is SaveDonation,
\* the retry flag is set and the first outcome was a retryable error.
C6_RetryGate ==
    nReq > 1 => (op = "SaveDonation" /\ doRetry /\ CanRetry(first.err))

C6_Witness ==
    nReq > 1 /\ op = "SaveDonation" /\ doRetry /\ CanRetry(first.err)

\* C7: in the retry loop, once the context is done the call sends no
\* further request, and its next step, out of a round trip or out of the
\* back-off wait, returns an error that carries the cancellation.
C7_CancellationEndsLoop ==
    [][(op = "SaveDonation" /\ phase = "retry" /\ cancelled /\ pc # "done")
          => (nReq' = nReq /\ pc' = "done" /\ result'.kind = "err"
                /\ result'.err.ctx)]_vars

\* a call cancelled in the loop after two requests has returned the
\* context's error
C7_Witness ==
    /\ op = "SaveDonation" /\ phase = "retry" /\ cancelled /\ pc = "done"
    /\ nReq = 2 /\ nAttempts = 3
    /\ result = Failed(ContextErr)

\* C8: an operation other than SaveDonation sends at most one request, and
\* when the response is the text retry later it returns the retryable error,
\* also with the retry flag set.
C8_OthersNeverRetry ==
    (op \in Operations \ {"SaveDonation"})
        => /\ nReq <= 1
           /\ phase = "first"
           /\ (pc = "done" /\ ReceivedRetryLater(lastResp))
                => (result.kind = "err" /\ CanRetry(result.err))

C8_Witness ==
    /\ op = "SavePerson" /\ doRetry /\ pc = "done"
    /\ ReceivedRetryLater(lastResp) /\ nReq = 1
    /\ CanRetry(result.err)

\* the bodies of RawTexts that are the sentinel once trimmed and lower-cased
SentinelTexts ==
    { <<"r","e","t","r","y"," ","l","a","t","e","r">>,
      <<"R","e","t","r","y"," ","L","a","t","e","r">>,
      <<" ","R","E","T","R","Y"," ","L","A","T","E","R","\n">> }

\* C9: the executor's error is retryable exactly when the round trip
\* succeeded, the body does not parse as the envelope and the body, trimmed
\* and lower-cased, is retry later, at every status; and the retry loop is
\* only entered on such an error.
C9_RetryableIffSentinel ==
    /\ lastResp # NoResponse
        => (CanRetry(last.err)
              <=> (/\ lastResp.transport = "ok"
                   /\ ~lastResp.body.json
                   /\ lastResp.body.text \in SentinelTexts))
    /\ (lastResp = NoResponse /\ last # NoOutcome) => ~CanRetry(last.err)

C9_Witness ==
    /\ lastResp.transport = "ok" /\ lastResp.status = 404
    /\ lastResp.body.text = <<" ","R","E","T","R","Y"," ","L","A","T","E","R","\n">>
    /\ CanRetry(last.err)

\* C10: for a body that parses as the envelope the executor returns the API
\* error exactly when type, message and code are all non-empty, at every
\* status; its text is "API error: {code} - ({type}) {message}" and it is not
\* retryable.
C10_APIError ==
    (lastResp.transport = "ok" /\ lastResp.body.json)
        => LET b == lastResp.body
               triple == b.type # "" /\ b.message # "" /\ b.code # ""
           IN /\ (last.err.kind = "api") <=> triple
              /\ triple =>
                    /\ ErrorText(last.err) =
                          << <<"API error: ">>, <<b.code>>, <<" - (">>, <<b.type>>,
                             <<") ">>, <<b.message>> >>
                    /\ \E i \in 1..Len(ErrorText(last.err)) :
                           ErrorText(last.err)[i] = <<"invalid_api_key">>
                    /\ ~CanRetry(last.err)
                    /\ last.env.isNil

C10_Witness ==
    /\ lastResp.transport = "ok" /\ lastResp.body.json /\ lastResp.status = 404
    /\ lastResp.body.type # "" /\ lastResp.body.message # ""
    /\ lastResp.body.code # ""
    /\ last.err.kind = "api"
    /\ pc = "done" /\ result = Failed(last.err)

\* the decimal texts of the statuses at and above 400
StatusTexts == [st \in {400, 404} |->
                  IF st = 400 THEN <<"4","0","0">> ELSE <<"4","0","4">>]

\* C11: for a body that parses as the envelope without the full triple the
\* executor returns an HTTP error whose text holds the decimal status when
\* the status is >= 400, and the envelope with a nil error when it is below
\* 400; the HTTP error is not retryable.
C11_HTTPError ==
    (lastResp.transport = "ok" /\ lastResp.body.json
        /\ ~(lastResp.body.type # "" /\ lastResp.body.message # ""
               /\ lastResp.body.code # ""))
        => IF lastResp.status >= 400
           THEN /\ last.err.kind = "http"
                /\ last.env.isNil
                /\ ~CanRetry(last.err)
                /\ ~last.err.retryable
                /\ \E i \in 1..Len(ErrorText(last.err)) :
                       ErrorText(last.err)[i] = StatusTexts[lastResp.status]
           ELSE /\ last.err = NilErr
                /\ ~last.env.isNil
                /\ last.env.data = lastResp.body.data

\* a 400 with an envelope that has a message but no code is the HTTP error
C11_Witness ==
    /\ lastResp.transport = "ok" /\ lastResp.body.json /\ lastResp.status = 400
    /\ lastResp.body.message # "" /\ lastResp.body.code = ""
    /\ last.err.kind = "http"
    /\ ErrorText(last.err)[2] = <<"4","0","0">>

\* C20 as claimed: every parsed response without the full triple whose
\* status is outside 200..299 is an HTTP error and never a success.
C20_Non2xxIsHTTPError ==
    (lastResp.transport = "ok" /\ lastResp.body.json
        /\ ~(lastResp.body.type # "" /\ lastResp.body.message # ""
               /\ lastResp.body.code # "")
        /\ (lastResp.status < 200 \/ lastResp.status >= 300))
        => (last.err.kind = "http" /\ last.err.status = lastResp.status)

\* C20 as amended: such a response is the HTTP error carrying the status
\* when the status is 400 or above; with a status outside 200..299 that is
\* below 400 the executor returns the envelope as a success.
C20_Non2xxBelow400IsSuccess ==
    (lastResp.transport = "ok" /\ lastResp.body.json
        /\ ~(lastResp.body.type # "" /\ lastResp.body.message # ""
               /\ lastResp.body.code # "")
        /\ (lastResp.status < 200 \/ lastResp.status >= 300))
        => IF lastResp.status >= 400
           THEN last.err.kind = "http" /\ last.err.status = lastResp.status
           ELSE last.err.kind = "nil" /\ last.env = Envelope(lastResp.body)

\* a 399 with a plain envelope comes back as a success
C20_Witness ==
    /\ lastResp.transport = "ok" /\ lastResp.body.json /\ lastResp.status = 399
    /\ lastResp.body.code = "" /\ lastResp.body.data = "obj1"
    /\ last.err.kind = "nil"
    /\ op = "FindAccount" /\ pc = "done" /\ result = Returned("obj1")

\* the argument of the last option of this kind in the list, or the default
LastArg(options, kind, default) ==
    LET at == {i \in 1..Len(options) : options[i].option = kind} IN
    IF at = {} THEN default
    ELSE options[CHOOSE i \in at : \A j \in at : j <= i].arg

Range(seq) == { seq[i] : i \in DOMAIN seq }

\* some account of the person has a non-empty ID
HasAccountWithID(in) == \E i \in DOMAIN in.accounts : in.accounts[i] # ""

\* C13: SavePerson, with or without a person ID, fails with the validation
\* error and sends nothing exactly when no account of the person has a
\* non-empty ID; when some account has one, validation passes and the one
\* request carries the ID of such an account.
C13_SavePersonValidation ==
    (op = "SavePerson" /\ pc # "idle" /\ ~(pc = "done" /\ cancelled /\ nReq = 0)) =>
        IF HasAccountWithID(input)
        THEN /\ result # Failed(ValidationErr)
             /\ nReq = 1
             /\ \E i \in DOMAIN input.accounts :
                    /\ input.accounts[i] # ""
                    /\ <<"account_id", <<input.accounts[i]>>>> \in Range(sent.body.fields)
        ELSE /\ pc = "done"
             /\ result = Failed(ValidationErr)
             /\ nReq = 0

\* C14: SaveDonation with an empty account ID returns the validation error
\* without sending a request and without entering the retry loop, whether or
\* not the donation has an ID and whatever the retry flag is.
C14_SaveDonationValidation ==
    (op = "SaveDonation" /\ pc # "idle" /\ input.accountID = "") =>
        /\ pc = "done"
        /\ result = Failed(ValidationErr)
        /\ nReq = 0
        /\ nAttempts = 0
        /\ phase = "first"
        /\ sent = NoRequest

C14_Witness ==
    /\ op = "SaveDonation" /\ pc = "done"
    /\ input.accountID = "" /\ input.id = <<"i","d","1">>
    /\ doRetry
    /\ result = Failed(ValidationErr)

SaveOperations == {"SavePerson", "SaveDonation", "SaveSubscription", "SaveCampaign"}

\* the path the save operations are expected to post to
ExpectedSavePath(o, id) ==
    LET collection == [SavePerson |-> "/people", SaveDonation |-> "/donations",
                       SaveSubscription |-> "/subscriptions",
                       SaveCampaign |-> "/campaigns"][o]
        update == [SavePerson |-> "/people/", SaveDonation |-> "/donations/",
                   SaveSubscription |-> "/subscriptions/",
                   SaveCampaign |-> "/campaigns/"][o]
    IN  CASE id = <<>>            -> <<collection>>
          [] id = <<"i","d","1">> -> <<update, "i", "d", "1">>
          [] id = <<"a","/","b">> -> <<update, "a", "%2F", "b">>

\* C15: every request of a save operation is a POST; its path is the
\* collection path when the record's ID is empty and the collection path,
\* a slash and the path-escaped ID when it is not, whatever the other
\* arguments are.
C15_SaveRouting ==
    (op \in SaveOperations /\ nReq >= 1) =>
        /\ sent.method = "POST"
        /\ sent.path = ExpectedSavePath(op, input.id)

C15_Witness ==
    /\ op = "SaveDonation" /\ nReq = 2 /\ pc = "inflight"
    /\ input.id = <<"a","/","b">>
    /\ sent.path = <<"/donations/", "a", "%2F", "b">>

\* the decimal representation of the positive offsets and limits
Decimal(n) ==
    CASE n = 10 -> <<"1", "0">>
      [] n = 20 -> <<"2", "0">>

\* the query string has the key
HasKey(query, key) == \E pair \in Range(query) : pair[1] = key

\* C16: the query string of ListPeople and ListDonations always has
\* account_id; it has offset exactly when offset > 0 and limit exactly when
\* limit > 0, each in decimal, and each decided on its own.
C16_Pagination ==
    (Paginated(op) /\ nReq >= 1) =>
        /\ <<"account_id", <<input.accountID>>>> \in Range(sent.query)
        /\ HasKey(sent.query, "offset") <=> input.offset > 0
        /\ HasKey(sent.query, "limit") <=> input.limit > 0
        /\ input.offset > 0 =>
               <<"offset", Decimal(input.offset)>> \in Range(sent.query)
        /\ input.limit > 0 =>
               <<"limit", Decimal(input.limit)>> \in Range(sent.query)

C16_Witness ==
    /\ op = "ListDonations" /\ nReq = 1
    /\ input.offset = 0 /\ input.limit = 20
    /\ sent.query = << <<"account_id", <<"acc_1">>>>, <<"limit", <<"2", "0">>>> >>

\* C17: RefundDonation with a non-empty account ID posts to
\* /donations/{id}/refund a form-urlencoded body with the fields account_id
\* and refund_reason, under the form content type.
C17_RefundIsFormEncoded ==
    (op = "RefundDonation" /\ nReq >= 1) =>
        /\ sent.method = "POST"
        /\ sent.path = <<"/donations/">> \o PathEscape(input.id) \o <<"/refund">>
        /\ sent.body.encoding = "form"
        /\ sent.body.fields = << <<"account_id", <<input.accountID>>>>,
                                 <<"refund_reason", <<input.reason>>>> >>
        /\ sent.headers.ContentType = "application/x-www-form-urlencoded"

\* C18: every request on the wire, the retries of SaveDonation included,
\* carries the Donately-Version of the configuration, Authorization with
\* Bearer and the configured key, the content type the operation asked for
\* and Accept: application/json.
C18_Headers ==
    nReq >= 1 =>
        /\ sent.headers.DonatelyVersion = "2018-04-01"
        /\ sent.headers.DonatelyVersion = opts.donatelyAPIVersion
        /\ sent.headers.Authorization = <<"Bearer ", opts.apiKey>>
        /\ sent.headers.ContentType =
               IF op = "SavePerson" THEN "application/x-www-form-urlencoded"
               ELSE "application/json"
        /\ sent.headers.Accept = "application/json"

C18_Witness ==
    /\ op = "SaveDonation" /\ nReq = 3 /\ pc = "inflight"
    /\ opts.apiKey = "test-api-key"
    /\ sent.headers.Authorization = <<"Bearer ", "test-api-key">>

\* C19: no step of a call changes the configuration the constructor
\* returned, and a second call running beside a SaveDonation sends the
\* request and returns the outcome it would alone for its response: it is
\* never stopped short by the other call.
C19_CallsIndependent ==
    /\ opts = ctorOut.opts
    /\ (oPc \in {"inflight", "done"} /\ PassesValidation(oOp, oInput)) =>
           oSent = RequestOf(ctorOut.opts, oOp, oInput, Endpoint(oOp, oInput))
    /\ (oPc = "done" /\ PassesValidation(oOp, oInput)) =>
           oResult = FirstResult(oOp, ctorOut.opts.doRetry, Classify(oResp, FALSE))
    /\ oPc = "inflight" => ProcessAlive

\* C21: every request of one SaveDonation call after the first is the
\* request before it over again: a POST to the path and query string built
\* from the donation before the first attempt, without a body.
C21_AttemptsIdentical ==
    [][(op = "SaveDonation" /\ nReq >= 1 /\ nReq' > nReq) =>
           /\ sent' = sent
           /\ sent'.method = "POST"
           /\ sent'.path = Path("SaveDonation", input)
           /\ sent'.query = << <<"account_id", <<input.accountID>>>> >>
           /\ sent'.body = [encoding |-> "none", fields |-> <<>>]]_vars

\* the third request of a SaveDonation with an ID is in flight
C21_Witness ==
    /\ op = "SaveDonation" /\ nReq = 3 /\ pc = "inflight"
    /\ input.id = <<"i","d","1">>
    /\ sent.path = <<"/donations/", "i", "d", "1">>
    /\ sent.query = << <<"account_id", <<"acc_1">>>> >>

\* C22: with the retry flag set, every response the sentinel and no
\* cancellation, a SaveDonation whose request is in flight sends at most
\* MaxElapsedTicks + 2 requests and eventually returns the retryable error.
C22_RetryLoopEnds ==
    /\ []((op = "SaveDonation" /\ doRetry) => nReq <= MaxElapsedTicks + 2)
    /\ (op = "SaveDonation" /\ doRetry /\ pc = "inflight")
           ~> (pc = "done" /\ result.kind = "err" /\ CanRetry(result.err))

\* Retry gave up after more than two requests and SaveDonation returned the
\* last retryable error
C22_Witness ==
    /\ op = "SaveDonation" /\ doRetry /\ phase = "retry" /\ pc = "done"
    /\ ~cancelled
    /\ nReq >= 3
    /\ result.kind = "err" /\ CanRetry(result.err)

====
